---- MODULE Spec2Model ----
(***************************************************************************)
(* One invocation of the riff "init" command: the PersistentPreRun hook    *)
(* (flag loading, function-path defaulting, validateAndCleanInitOptions)   *)
(* followed by Run (option re-loading, language detection, Dockerfile      *)
(* generation).                                                            *)
(*                                                                         *)
(* Strings that the code transforms (paths, protocol) are sequences of     *)
(* one-character strings, so that filepath.Clean, strings.HasPrefix and    *)
(* strings.ToLower are computed character by character.                    *)
(***************************************************************************)
EXTENDS Integers, Sequences, FiniteSets, TLC

VARIABLES
    flags,        \* the persistent flag values given on the command line (never mutated)
    args,         \* the positional arguments
    pc,           \* "start" | "exited" (os.Exit(1)) | "ready" (PersistentPreRun returned) | "done"
    initOptions,  \* PersistentPreRun's local InitOptions, as validateAndCleanInitOptions left it
    err,          \* what PersistentPreRun reported: "nil" or the error
    language,     \* the language handed to generateDockerfile
    genOpts,      \* the HandlerAwareInitOptions handed to generateDockerfile
    dockerfile,   \* the text generateDockerfile returned
    genErr        \* the error generateDockerfile returned

vars == <<flags, args, pc, initOptions, err, language, genOpts, dockerfile, genErr>>

(***************************************************************************)
(* Bounds and input sets                                                   *)
(***************************************************************************)
\* longest artifact flag, in "/"-separated segments
MaxArtSegs == 3

\* the segments raw paths are built from; the empty segment gives a leading,
\* a doubled or a trailing separator
SegNames == { <<>>, <<".">>, <<".", ".">>, <<"a">>, <<"a", "b">>, <<"f">> }

RECURSIVE JoinSegs(_)
\* the segments joined by "/"
JoinSegs(segs) ==
    IF segs = <<>> THEN <<>>
    ELSE IF Len(segs) = 1 THEN segs[1]
    ELSE segs[1] \o <<"/">> \o JoinSegs(Tail(segs))

\* every raw artifact flag of at most MaxArtSegs segments
Artifacts ==
    { JoinSegs(s) : s \in UNION { [1..n -> SegNames] : n \in 0..MaxArtSegs } }

\* the raw --filepath flag values
FunctionPaths ==
    { <<>>,
      <<".">>,
      <<"/", "a">>,
      <<"/", "a", "/">>,
      <<"a">>,
      <<"f">>,
      <<"a", "/", "f">>,
      <<"/", "a", "b">>,
      <<"b">>,
      <<"b", "/", ".", ".">> }

\* the positional-argument lists
ArgLists == { <<>>, << <<"a">> >>, << <<"b">> >>, << <<"a">>, <<"f">> >> }

\* the --filepath values that positional arguments are combined with
FunctionPathsWithArgs == { <<>>, <<".">> }

\* the raw --protocol flag values
Protocols == { <<>>, <<"H", "T", "T", "P">>, <<"F", "t", "p">> }

\* the --riff-version and --handler flag values
RiffVersions == { <<"0", ".", "1">> }
Handlers == { <<>>, <<"F", "n">> }

\* the language identifiers the initializer may hand to the generator
Languages == { "java", "python", "shell", "node", "js", "Java", "", "ruby" }

(***************************************************************************)
(* The filesystem the command runs on                                      *)
(*   /            directory                                                *)
(*   /a           directory, the working directory                         *)
(*   /a/f         regular file                                             *)
(*   /a/a         directory                                                *)
(*   /a/a/f       regular file                                             *)
(*   /ab          directory (a sibling of /a sharing its name as prefix)   *)
(*   /ab/f        regular file                                             *)
(* Entries are named by their sequence of component names from the root.   *)
(***************************************************************************)
Dirs == { <<>>, << <<"a">> >>, << <<"a">>, <<"a">> >>, << <<"a", "b">> >> }
Files == { << <<"a">>, <<"f">> >>,
           << <<"a">>, <<"a">>, <<"f">> >>,
           << <<"a", "b">>, <<"f">> >> }

CWD == <<"/", "a">>

(***************************************************************************)
(* strings and path/filepath                                               *)
(***************************************************************************)
HasPrefix(s, prefix) ==
    /\ Len(s) >= Len(prefix)
    /\ SubSeq(s, 1, Len(prefix)) = prefix

\* index of the first "/" of s at or after i, 0 when there is none
RECURSIVE IndexSep(_, _)
IndexSep(s, i) ==
    IF i > Len(s) THEN 0
    ELSE IF s[i] = "/" THEN i
    ELSE IndexSep(s, i + 1)

\* index of the last "/" of s, 0 when there is none
RECURSIVE LastIndexSep(_, _)
LastIndexSep(s, i) ==
    IF i < 1 THEN 0
    ELSE IF s[i] = "/" THEN i
    ELSE LastIndexSep(s, i - 1)

\* s cut at every "/"
RECURSIVE Segs(_)
Segs(s) ==
    LET i == IndexSep(s, 1)
    IN  IF i = 0 THEN <<s>>
        ELSE <<SubSeq(s, 1, i - 1)>> \o Segs(SubSeq(s, i + 1, Len(s)))

IsAbs(path) == HasPrefix(path, <<"/">>)

\* the elements Clean keeps: no empty element, no ".", an inner ".." cancels
\* the element before it, a ".." at the root is dropped
RECURSIVE CleanSegs(_, _, _)
CleanSegs(segs, out, rooted) ==
    IF segs = <<>> THEN out
    ELSE LET s == Head(segs)
             rest == Tail(segs)
         IN  IF s = <<>> \/ s = <<".">> THEN CleanSegs(rest, out, rooted)
             ELSE IF s = <<".", ".">> THEN
                 IF out # <<>> /\ out[Len(out)] # <<".", ".">>
                 THEN CleanSegs(rest, SubSeq(out, 1, Len(out) - 1), rooted)
                 ELSE IF rooted THEN CleanSegs(rest, out, rooted)
                 ELSE CleanSegs(rest, Append(out, s), rooted)
             ELSE CleanSegs(rest, Append(out, s), rooted)

\* filepath.Clean
Clean(path) ==
    IF path = <<>> THEN <<".">>
    ELSE LET rooted == IsAbs(path)
             out == JoinSegs(CleanSegs(Segs(path), <<>>, rooted))
         IN  IF rooted THEN <<"/">> \o out
             ELSE IF out = <<>> THEN <<".">>
             ELSE out

\* filepath.Join of two elements
Join(a, b) ==
    IF a = <<>> /\ b = <<>> THEN <<>>
    ELSE IF a = <<>> THEN Clean(b)
    ELSE IF b = <<>> THEN Clean(a)
    ELSE Clean(a \o <<"/">> \o b)

\* filepath.Dir: everything up to the last separator, cleaned
Dir(path) == Clean(SubSeq(path, 1, LastIndexSep(path, Len(path))))

\* path without its trailing separators
RECURSIVE StripTrailingSeps(_)
StripTrailingSeps(path) ==
    IF path # <<>> /\ path[Len(path)] = "/"
    THEN StripTrailingSeps(SubSeq(path, 1, Len(path) - 1))
    ELSE path

\* filepath.Base
Base(path) ==
    IF path = <<>> THEN <<".">>
    ELSE LET p == StripTrailingSeps(path)
             q == SubSeq(p, LastIndexSep(p, Len(p)) + 1, Len(p))
         IN  IF q = <<>> THEN <<"/">> ELSE q

\* filepath.Abs
Abs(path) == IF IsAbs(path) THEN Clean(path) ELSE Join(CWD, path)

\* strings.ToLower, one character
LowerChar(c) ==
    CASE c = "H" -> "h"
      [] c = "T" -> "t"
      [] c = "P" -> "p"
      [] c = "F" -> "f"
      [] c = "G" -> "g"
      [] c = "R" -> "r"
      [] c = "C" -> "c"
      [] OTHER -> c

ToLower(s) == [i \in 1..Len(s) |-> LowerChar(s[i])]

(***************************************************************************)
(* osutils: stat on the filesystem above                                   *)
(***************************************************************************)
\* the component names of a path, empty elements dropped
Names(path) == SelectSeq(Segs(path), LAMBDA s : s # <<>>)

EntryType(at) ==
    IF at \in Dirs THEN "dir" ELSE IF at \in Files THEN "file" ELSE "none"

\* path resolution, component by component: every component is looked up in
\* a directory, ".." moves to the parent
RECURSIVE Walk(_, _)
Walk(at, comps) ==
    IF comps = <<>> THEN EntryType(at)
    ELSE IF EntryType(at) # "dir" THEN "none"
    ELSE LET c == Head(comps)
         IN  IF c = <<>> \/ c = <<".">> THEN Walk(at, Tail(comps))
             ELSE IF c = <<".", ".">> THEN
                 Walk(IF at = <<>> THEN at ELSE SubSeq(at, 1, Len(at) - 1), Tail(comps))
             ELSE Walk(Append(at, c), Tail(comps))

\* os.Stat: "dir", "file" or "none"
Stat(path) ==
    IF path = <<>> THEN "none"
    ELSE Walk(IF IsAbs(path) THEN <<>> ELSE Names(CWD), Segs(path))

FileExists(path) == Stat(path) # "none"
IsDirectory(path) == Stat(path) = "dir"

\* osutils.GetCWD
GetCWD == CWD

(***************************************************************************)
(* cmd/init.go: validateAndCleanInitOptions                                *)
(* An InitOptions value is [functionPath, artifact, protocol, riffVersion].*)
(* Errors are named after the message the code formats:                    *)
(*   PathNotFound               "filepath %s does not exist"               *)
(*   InvalidArtifactNotRelative "artifact %s must be relative to function  *)
(*                               path"                                     *)
(*   InvalidArtifactIsDirectory "artifact %s must be a regular file"       *)
(*   ArtifactOutsideTree        "artifact %s cannot be external to         *)
(*                               filepath ..."                             *)
(*   ArtifactNotFound           "artifact %s does not exist"               *)
(*   ArtifactConflict           "artifact %s conflicts with filepath %s"   *)
(*   UnsupportedProtocol        "protocol %s is unsupported"               *)
(***************************************************************************)
\* the protocol whitelist
supportedProtocols ==
    { <<"s", "t", "d", "i", "o">>, <<"h", "t", "t", "p">>, <<"g", "r", "p", "c">> }

\* CleanOptions with the artifact left as given
CleanOptions_FunctionPathOnly(options) ==
    [options EXCEPT !.functionPath = Clean(@)]

\* functionPath and a non-empty artifact are cleaned in place
CleanOptions(options) ==
    [options EXCEPT !.functionPath = Clean(@),
                    !.artifact = IF @ # <<>> THEN Clean(@) ELSE @]

\* FunctionPathMissing looking at the parent directory of the function path
FunctionPathMissing_ParentOnly(options) ==
    /\ options.functionPath # <<>>
    /\ ~FileExists(Dir(options.functionPath))

\* the function path is given and is not on the filesystem
FunctionPathMissing(options) ==
    /\ options.functionPath # <<>>
    /\ ~FileExists(options.functionPath)

\* ArtifactIsAbsolute testing the function path in place of the artifact
ArtifactIsAbsolute_OfFunctionPath(options) == IsAbs(options.functionPath)

ArtifactIsAbsolute(options) == IsAbs(options.artifact)

\* the artifact joined to the function path, or to its parent when the
\* function path is a file
ResolveArtifact(absFilePath, artifact) ==
    IF IsDirectory(absFilePath)
    THEN Join(absFilePath, artifact)
    ELSE Join(Dir(absFilePath), artifact)

\* absFilePathDir: the function path, or its parent when it is a file
ContainmentRoot(absFilePath) ==
    IF ~IsDirectory(absFilePath) THEN Dir(absFilePath) ELSE absFilePath

ArtifactIsExternal(absArtifactPath, absFilePathDir) ==
    ~HasPrefix(Dir(absArtifactPath), absFilePathDir)

\* ArtifactConflicts with the directory test not negated
ArtifactConflicts_DirectoryOnly(absFilePath, absArtifactPath) ==
    /\ IsDirectory(absFilePath)
    /\ absFilePath # absArtifactPath

ArtifactConflicts(absFilePath, absArtifactPath) ==
    /\ ~IsDirectory(absFilePath)
    /\ absFilePath # absArtifactPath

\* ResolvedArtifactError with the existence check made before the containment check
ResolvedArtifactError_ExistenceFirst(absFilePath, absArtifactPath, absFilePathDir) ==
    IF IsDirectory(absArtifactPath) THEN "InvalidArtifactIsDirectory"
    ELSE IF ~FileExists(absArtifactPath) THEN "ArtifactNotFound"
    ELSE IF ArtifactIsExternal(absArtifactPath, absFilePathDir) THEN "ArtifactOutsideTree"
    ELSE IF ArtifactConflicts(absFilePath, absArtifactPath) THEN "ArtifactConflict"
    ELSE "nil"

\* the checks of a non-empty artifact that follow the path resolution, in
\* the order the code makes them
ResolvedArtifactError(absFilePath, absArtifactPath, absFilePathDir) ==
    IF IsDirectory(absArtifactPath) THEN "InvalidArtifactIsDirectory"
    ELSE IF ArtifactIsExternal(absArtifactPath, absFilePathDir) THEN "ArtifactOutsideTree"
    ELSE IF ~FileExists(absArtifactPath) THEN "ArtifactNotFound"
    ELSE IF ArtifactConflicts(absFilePath, absArtifactPath) THEN "ArtifactConflict"
    ELSE "nil"

\* the checks of a non-empty artifact
ArtifactError(options) ==
    IF ArtifactIsAbsolute(options) THEN "InvalidArtifactNotRelative"
    ELSE LET absFilePath == Abs(options.functionPath)
         IN  ResolvedArtifactError(absFilePath,
                                   ResolveArtifact(absFilePath, options.artifact),
                                   ContainmentRoot(absFilePath))

\* NormalizeProtocol without the lower-casing
NormalizeProtocol_AsGiven(protocol) == protocol

NormalizeProtocol(protocol) == ToLower(protocol)

ProtocolSupported(protocol) == \E p \in supportedProtocols : protocol = p

\* the options as the validator leaves them, and the error it returns
validateAndCleanInitOptions(options) ==
    LET cleaned == CleanOptions(options)
        lowered == [cleaned EXCEPT !.protocol = NormalizeProtocol(@)]
        artifactErr == ArtifactError(cleaned)
    IN  IF FunctionPathMissing(cleaned)
        THEN [options |-> cleaned, err |-> "PathNotFound"]
        ELSE IF cleaned.artifact # <<>> /\ artifactErr # "nil"
        THEN [options |-> cleaned, err |-> artifactErr]
        ELSE IF cleaned.protocol = <<>>
        THEN [options |-> cleaned, err |-> "nil"]
        ELSE IF ~ProtocolSupported(lowered.protocol)
        THEN [options |-> lowered, err |-> "UnsupportedProtocol"]
        ELSE [options |-> lowered, err |-> "nil"]

(***************************************************************************)
(* pkg/generate/generate_docker.go                                         *)
(* A template is a sequence of literal pieces and {{.Field}} actions; the  *)
(* rendered text is the sequence of literal pieces and substituted values. *)
(***************************************************************************)
Lit(s) == [kind |-> "lit", lit |-> s, field |-> ""]
Fld(f) == [kind |-> "fld", lit |-> "", field |-> f]

pythonFunctionDockerfileTemplate ==
    << Lit("\nFROM projectriff/python2-function-invoker:"), Fld("RiffVersion"),
       Lit("\nARG FUNCTION_MODULE="), Fld("ArtifactBase"),
       Lit("\nARG FUNCTION_HANDLER="), Fld("Handler"),
       Lit("\nADD ./"), Fld("ArtifactBase"),
       Lit(" /\nADD ./requirements.txt /\nRUN  pip install --upgrade pip && pip install -r /requirements.txt\nENV FUNCTION_URI file:///${FUNCTION_MODULE}?handler=${FUNCTION_HANDLER}\n") >>

nodeFunctionDockerfileTemplate ==
    << Lit("\nFROM projectriff/node-function-invoker:"), Fld("RiffVersion"),
       Lit("\nENV FUNCTION_URI /functions/"), Fld("Artifact"),
       Lit("\nADD "), Fld("ArtifactBase"),
       Lit(" ${FUNCTION_URI}\n") >>

javaFunctionDockerfileTemplate ==
    << Lit("\nFROM projectriff/java-function-invoker:"), Fld("RiffVersion"),
       Lit("\nARG FUNCTION_JAR=/functions/"), Fld("ArtifactBase"),
       Lit("\nARG FUNCTION_CLASS="), Fld("Handler"),
       Lit("\nADD target/"), Fld("ArtifactBase"),
       Lit(" $FUNCTION_JAR\nENV FUNCTION_URI file://${FUNCTION_JAR}?handler=${FUNCTION_CLASS}\n") >>

shellFunctionDockerfileTemplate ==
    << Lit("\nFROM projectriff/shell-function-invoker:"), Fld("RiffVersion"),
       Lit("\nARG FUNCTION_URI=\"/"), Fld("ArtifactBase"),
       Lit("\"\nADD "), Fld("Artifact"),
       Lit(" /\nENV FUNCTION_URI $FUNCTION_URI\n") >>

\* the fields of DockerFileTokens
TokenFields == { "Artifact", "ArtifactBase", "RiffVersion", "Handler" }

\* template.Parse succeeds on a sequence of literals and field actions
ParseOk(tmpl) == \A i \in 1..Len(tmpl) : tmpl[i].kind \in { "lit", "fld" }

\* Template.Execute succeeds when every field action names a field of the tokens
ExecuteOk(tmpl, tokens) ==
    \A i \in 1..Len(tmpl) : tmpl[i].kind = "fld" => tmpl[i].field \in DOMAIN tokens

generateFunctionDockerFileContents(tmpl, tokens) ==
    IF ~ParseOk(tmpl) THEN [text |-> <<>>, err |-> "RenderError"]
    ELSE IF ~ExecuteOk(tmpl, tokens) THEN [text |-> <<>>, err |-> "RenderError"]
    ELSE [text |-> [i \in 1..Len(tmpl) |->
                        IF tmpl[i].kind = "lit"
                        THEN [lit |-> tmpl[i].lit, sub |-> <<>>]
                        ELSE [lit |-> "", sub |-> tokens[tmpl[i].field]]],
          err |-> "nil"]

\* the tokens built from InitOptions: Handler keeps its zero value
InitTokens(opts) ==
    [Artifact |-> opts.artifact, ArtifactBase |-> Base(opts.artifact),
     RiffVersion |-> opts.riffVersion, Handler |-> <<>>]

\* the tokens built from HandlerAwareInitOptions
HandlerTokens(opts) ==
    [Artifact |-> opts.artifact, ArtifactBase |-> Base(opts.artifact),
     RiffVersion |-> opts.riffVersion, Handler |-> opts.handler]

generateShellFunctionDockerFile(opts) ==
    generateFunctionDockerFileContents(shellFunctionDockerfileTemplate, InitTokens(opts))

generateNodeFunctionDockerFile(opts) ==
    generateFunctionDockerFileContents(nodeFunctionDockerfileTemplate, InitTokens(opts))

generateJavaFunctionDockerFile(opts) ==
    generateFunctionDockerFileContents(javaFunctionDockerfileTemplate, HandlerTokens(opts))

generatePythonFunctionDockerFile(opts) ==
    generateFunctionDockerFileContents(pythonFunctionDockerfileTemplate, HandlerTokens(opts))

\* generateDockerfile with "js" dispatched to the shell template
generateDockerfile_JsAsShell(lang, opts) ==
    CASE lang = "java" -> generateJavaFunctionDockerFile(opts)
      [] lang = "python" -> generatePythonFunctionDockerFile(opts)
      [] lang = "shell" -> generateShellFunctionDockerFile(opts)
      [] lang = "node" -> generateNodeFunctionDockerFile(opts)
      [] lang = "js" -> generateShellFunctionDockerFile(opts)
      [] OTHER -> [text |-> <<>>, err |-> "UnsupportedLanguage"]

\* generateDockerfile with a capitalised "Java" accepted as java
generateDockerfile_JavaAnyCase(lang, opts) ==
    CASE lang = "java" \/ lang = "Java" -> generateJavaFunctionDockerFile(opts)
      [] lang = "python" -> generatePythonFunctionDockerFile(opts)
      [] lang = "shell" -> generateShellFunctionDockerFile(opts)
      [] lang = "node" -> generateNodeFunctionDockerFile(opts)
      [] lang = "js" -> generateNodeFunctionDockerFile(opts)
      [] OTHER -> [text |-> <<>>, err |-> "UnsupportedLanguage"]

generateDockerfile(lang, opts) ==
    CASE lang = "java" -> generateJavaFunctionDockerFile(opts)
      [] lang = "python" -> generatePythonFunctionDockerFile(opts)
      [] lang = "shell" -> generateShellFunctionDockerFile(opts)
      [] lang = "node" -> generateNodeFunctionDockerFile(opts)
      [] lang = "js" -> generateNodeFunctionDockerFile(opts)
      [] OTHER -> [text |-> <<>>, err |-> "UnsupportedLanguage"]

(***************************************************************************)
(* cmd/init.go: the init command                                           *)
(***************************************************************************)
\* the InitOptions read from the persistent flags: a fresh value per call
loadInitOptions(fl) ==
    [functionPath |-> fl.functionPath, artifact |-> fl.artifact,
     protocol |-> fl.protocol, riffVersion |-> fl.riffVersion]

\* the positional arguments are rejected: more than one, or one beside --filepath
InvalidArguments(loaded) ==
    /\ Len(args) > 0
    /\ ~(Len(args) = 1 /\ loaded.functionPath = <<>>)

\* the options PersistentPreRun hands to the validator: the function path is
\* the flag, else the single argument, else the working directory
PreRunOptions ==
    LET loaded == loadInitOptions(flags)
        given == IF Len(args) = 1 /\ loaded.functionPath = <<>>
                 THEN [loaded EXCEPT !.functionPath = args[1]]
                 ELSE loaded
    IN  IF given.functionPath = <<>>
        THEN [given EXCEPT !.functionPath = GetCWD]
        ELSE given

newHandlerAwareOptions(handler) ==
    [functionPath |-> loadInitOptions(flags).functionPath,
     artifact |-> loadInitOptions(flags).artifact,
     protocol |-> loadInitOptions(flags).protocol,
     riffVersion |-> loadInitOptions(flags).riffVersion,
     handler |-> handler]

ZeroOptions ==
    [functionPath |-> <<>>, artifact |-> <<>>, protocol |-> <<>>, riffVersion |-> <<>>]

Init ==
    /\ flags \in [functionPath : FunctionPaths, artifact : Artifacts,
                  protocol : Protocols, riffVersion : RiffVersions]
    /\ args \in ArgLists
    /\ args # <<>> => flags.functionPath \in FunctionPathsWithArgs
    /\ pc = "start"
    /\ initOptions = ZeroOptions
    /\ err = "nil"
    /\ language = ""
    /\ genOpts = [functionPath |-> <<>>, artifact |-> <<>>, protocol |-> <<>>,
                  riffVersion |-> <<>>, handler |-> <<>>]
    /\ dockerfile = <<>>
    /\ genErr = "nil"

\* initCmd.PersistentPreRun: exits the process on a usage or validation error
PersistentPreRun ==
    /\ pc = "start"
    /\ LET r == validateAndCleanInitOptions(PreRunOptions)
       IN  IF InvalidArguments(loadInitOptions(flags))
           THEN /\ pc' = "exited"
                /\ err' = "InvalidArguments"
                /\ initOptions' = loadInitOptions(flags)
           ELSE /\ pc' = IF r.err = "nil" THEN "ready" ELSE "exited"
                /\ err' = r.err
                /\ initOptions' = r.options
    /\ UNCHANGED <<flags, args, language, genOpts, dockerfile, genErr>>

\* initCmd.Run: the options are loaded from the flags again and handed to the
\* language-detecting initializer, which generates the Dockerfile for the
\* language it settles on
Run ==
    /\ pc = "ready"
    /\ \E handler \in Handlers, lang \in Languages :
          LET opts == newHandlerAwareOptions(handler)
              r == generateDockerfile(lang, opts)
          IN  /\ language' = lang
              /\ genOpts' = opts
              /\ dockerfile' = r.text
              /\ genErr' = r.err
    /\ pc' = "done"
    /\ UNCHANGED <<flags, args, initOptions, err>>

Next == PersistentPreRun \/ Run

Spec == Init /\ [][Next]_vars

(***************************************************************************)
(* Properties                                                              *)
(***************************************************************************)
\* PersistentPreRun has just called validateAndCleanInitOptions
Validated == pc = "ready" \/ (pc = "exited" /\ err # "InvalidArguments")

\* validateAndCleanInitOptions has just returned no error
ValidationPassed == pc = "ready"

\* the absolute function path, the resolved artifact and the containment root
\* of the options the validator was given
GivenAbsFilePath == Abs(Clean(PreRunOptions.functionPath))
GivenRoot ==
    IF Stat(GivenAbsFilePath) = "dir" THEN GivenAbsFilePath ELSE Dir(GivenAbsFilePath)
GivenResolved == Join(GivenRoot, PreRunOptions.artifact)

\* path p lies inside the directory tree rooted at root, component by component
IsDescendant(p, root) ==
    /\ Len(Names(p)) > Len(Names(root))
    /\ SubSeq(Names(p), 1, Len(Names(root))) = Names(root)

PathErrors ==
    { "PathNotFound", "InvalidArtifactNotRelative", "InvalidArtifactIsDirectory",
      "ArtifactOutsideTree", "ArtifactNotFound", "ArtifactConflict" }

\* C1: when validation passes with a non-empty artifact, the resolved
\* artifact is a component-wise descendant of the containment root.
C1_ArtifactInsideRoot ==
    (ValidationPassed /\ initOptions.artifact # <<>>)
        => IsDescendant(GivenResolved, GivenRoot)

\* C2 as stated: an absolute artifact always fails with the
\* must-be-relative error, whether or not the function path exists.
C2_AbsoluteArtifactAlwaysInvalid ==
    (Validated /\ IsAbs(PreRunOptions.artifact))
        => err = "InvalidArtifactNotRelative"

\* C2 amended: an absolute artifact fails with the must-be-relative error
\* when the cleaned function path exists (whether or not the artifact
\* exists), and with PathNotFound when it does not.
C2_AbsoluteArtifactInvalid ==
    (Validated /\ IsAbs(PreRunOptions.artifact))
        => err = IF Stat(Clean(PreRunOptions.functionPath)) # "none"
                 THEN "InvalidArtifactNotRelative"
                 ELSE "PathNotFound"

\* an absolute artifact that does not exist, beside an existing function
\* path, was rejected as not relative
C2_Witness ==
    /\ Validated
    /\ IsAbs(PreRunOptions.artifact)
    /\ Stat(PreRunOptions.artifact) = "none"
    /\ PreRunOptions.protocol # <<>>
    /\ err = "InvalidArtifactNotRelative"

\* C3 as stated: a function path that does not exist on the filesystem
\* always fails with PathNotFound.
C3_MissingPathNotFound ==
    (Validated /\ Stat(PreRunOptions.functionPath) = "none")
        => err = "PathNotFound"

\* C3 amended: a function path whose cleaned form does not exist on the
\* filesystem fails with PathNotFound, for any artifact and protocol.
C3_MissingCleanPathNotFound ==
    (Validated /\ Stat(Clean(PreRunOptions.functionPath)) = "none")
        => err = "PathNotFound"

\* a missing function path beside an absolute artifact and an unsupported
\* protocol was reported as PathNotFound
C3_Witness ==
    /\ Validated
    /\ Stat(Clean(PreRunOptions.functionPath)) = "none"
    /\ IsAbs(PreRunOptions.artifact)
    /\ PreRunOptions.protocol = <<"F", "t", "p">>
    /\ err = "PathNotFound"

\* the function path is a regular file F and the artifact is a relative
\* path resolving, against F's parent, to another existing regular file
C4_OtherFile ==
    /\ Validated
    /\ Stat(Clean(PreRunOptions.functionPath)) = "file"
    /\ PreRunOptions.artifact # <<>>
    /\ ~IsAbs(PreRunOptions.artifact)
    /\ Stat(GivenResolved) = "file"
    /\ GivenResolved # GivenAbsFilePath

\* validation passed with a file-mode function path and an artifact
C4_FileModePassed ==
    /\ ValidationPassed
    /\ Stat(Clean(PreRunOptions.functionPath)) = "file"
    /\ PreRunOptions.artifact # <<>>

\* C4 as stated: a file-mode function path with an artifact resolving to
\* another existing regular file fails with ArtifactConflict, and a passing
\* file-mode validation has the artifact resolve to the function path.
C4_OtherFileConflicts ==
    /\ C4_OtherFile => err = "ArtifactConflict"
    /\ C4_FileModePassed => GivenResolved = GivenAbsFilePath

\* C4 amended: such an artifact fails with ArtifactConflict when it lies in
\* the tree of F's parent directory, and with ArtifactConflict or
\* ArtifactOutsideTree when it lies outside it; a passing file-mode
\* validation has the artifact resolve to the function path.
C4_OtherFileRejected ==
    /\ C4_OtherFile => err \in { "ArtifactConflict", "ArtifactOutsideTree" }
    /\ (C4_OtherFile /\ IsDescendant(GivenResolved, GivenRoot)) => err = "ArtifactConflict"
    /\ C4_FileModePassed => GivenResolved = GivenAbsFilePath

\* another file of F's parent directory was rejected as a conflict
C4_Witness ==
    /\ C4_OtherFile
    /\ IsDescendant(GivenResolved, GivenRoot)
    /\ err = "ArtifactConflict"

\* C5: with the path and artifact checks passed and a non-empty protocol,
\* validation succeeds exactly when the lower-cased protocol is supported,
\* leaving options.protocol lower-cased; otherwise UnsupportedProtocol.
C5_ProtocolNormalized ==
    (Validated /\ PreRunOptions.protocol # <<>> /\ err \notin PathErrors)
        => /\ err = "nil" <=> ToLower(PreRunOptions.protocol) \in supportedProtocols
           /\ err = "nil" => initOptions.protocol = ToLower(PreRunOptions.protocol)
           /\ err # "nil" => err = "UnsupportedProtocol"
           /\ PreRunOptions.protocol = <<"H", "T", "T", "P">>
                => err = "nil" /\ initOptions.protocol = <<"h", "t", "t", "p">>

\* "HTTP" beside an existing function path and no artifact became "http"
C5_Witness ==
    /\ pc = "ready"
    /\ PreRunOptions.artifact = <<>>
    /\ PreRunOptions.protocol = <<"H", "T", "T", "P">>
    /\ initOptions.protocol = <<"h", "t", "t", "p">>

\* the function path is a directory D, the artifact a relative path to an
\* existing non-directory file under D, and the protocol is empty
C6_FileUnderDirectory ==
    /\ Validated
    /\ Stat(Clean(PreRunOptions.functionPath)) = "dir"
    /\ PreRunOptions.artifact # <<>>
    /\ ~IsAbs(PreRunOptions.artifact)
    /\ Stat(GivenResolved) = "file"
    /\ IsDescendant(GivenResolved, GivenAbsFilePath)
    /\ PreRunOptions.protocol = <<>>

\* a relative path in cleaned form: no empty element (so no doubled or
\* trailing separator), no "." element, ".." elements only at the front
IsCleanRelative(path) ==
    LET segs == Segs(path)
    IN  /\ \A i \in 1..Len(segs) : segs[i] # <<>> /\ segs[i] # <<".">>
        /\ \A i \in 2..Len(segs) :
              segs[i] = <<".", ".">> => segs[i - 1] = <<".", ".">>

\* C6: for such options validation returns no error and leaves the artifact
\* in its cleaned form.
C6_ArtifactCleaned ==
    C6_FileUnderDirectory
        => /\ err = "nil"
           /\ initOptions.artifact = Clean(PreRunOptions.artifact)
           /\ IsCleanRelative(initOptions.artifact)

\* an artifact given in an uncleaned form passed and was cleaned
C6_Witness ==
    /\ C6_FileUnderDirectory
    /\ pc = "ready"
    /\ ~IsCleanRelative(PreRunOptions.artifact)
    /\ initOptions.artifact = <<"a", "/", "f">>

\* C7: the result for "js" is the result for "node" on the same options.
C7_JsIsNode ==
    (pc = "done" /\ language = "js")
        => [text |-> dockerfile, err |-> genErr] = generateDockerfile("node", genOpts)

\* a Dockerfile was generated for "js"
C7_Witness ==
    /\ pc = "done"
    /\ language = "js"
    /\ genErr = "nil"
    /\ dockerfile # <<>>
    /\ genOpts.artifact # <<>>

SupportedLanguages == { "java", "python", "shell", "node", "js" }

\* C8: a language outside java, python, shell, node, js yields
\* UnsupportedLanguage with an empty text, the five languages never do, and
\* every error comes with an empty text.
C8_DispatchClosed ==
    pc = "done"
        => /\ language \notin SupportedLanguages
                => genErr = "UnsupportedLanguage" /\ dockerfile = <<>>
           /\ language \in SupportedLanguages => genErr # "UnsupportedLanguage"
           /\ genErr # "nil" => dockerfile = <<>>

\* "Java" was rejected without text
C8_Witness ==
    /\ pc = "done"
    /\ language = "Java"
    /\ genErr = "UnsupportedLanguage"
    /\ dockerfile = <<>>

\* C9: the options that reach the generator are the ones the validator
\* cleaned, defaulted and lower-cased, and the generator is reached only
\* after a validation without error.
C9_GeneratorSeesValidatedOptions ==
    pc = "done"
        => /\ err = "nil"
           /\ genOpts.artifact = initOptions.artifact
           /\ genOpts.functionPath = initOptions.functionPath
           /\ genOpts.protocol = initOptions.protocol

\* the first error in the order PathNotFound, InvalidArtifact (absolute),
\* InvalidArtifact (directory), ArtifactOutsideTree, ArtifactNotFound,
\* ArtifactConflict, UnsupportedProtocol among the checks that fail
C10_FirstFailing ==
    LET hasArtifact == PreRunOptions.artifact # <<>>
    IN  IF Stat(Clean(PreRunOptions.functionPath)) = "none" THEN "PathNotFound"
        ELSE IF hasArtifact /\ IsAbs(PreRunOptions.artifact)
            THEN "InvalidArtifactNotRelative"
        ELSE IF hasArtifact /\ Stat(GivenResolved) = "dir"
            THEN "InvalidArtifactIsDirectory"
        ELSE IF hasArtifact /\ ~HasPrefix(Dir(GivenResolved), GivenRoot)
            THEN "ArtifactOutsideTree"
        ELSE IF hasArtifact /\ Stat(GivenResolved) = "none"
            THEN "ArtifactNotFound"
        ELSE IF hasArtifact /\ Stat(GivenAbsFilePath) # "dir"
                            /\ GivenResolved # GivenAbsFilePath
            THEN "ArtifactConflict"
        ELSE IF /\ PreRunOptions.protocol # <<>>
                /\ ToLower(PreRunOptions.protocol) \notin supportedProtocols
            THEN "UnsupportedProtocol"
        ELSE "nil"

====
